---- MODULE Spec2Model ----
(***************************************************************************)
(* Model of the lexLens contract-processing pipeline: the upload route     *)
(* (routes/contract.routes.js), queueContractExtraction and the            *)
(* 'extract-text' job handler (services/queue.service.js), run by a Bull   *)
(* queue with attempts: 3.  One uploaded document is followed through the  *)
(* store (contracts, processing_jobs, clauses) and the queue.  Every await *)
(* of the route and of the handler is a step, so the route and the worker  *)
(* interleave as they do in the program.                                   *)
(***************************************************************************)
EXTENDS Integers, Sequences, FiniteSets, TLC

(* Largest number of clause candidates segmentation yields for a document. *)
MaxClauses == 2

(* attempts: 3 in the options of contractQueue.add *)
Attempts == 3

NULL == "null"

(* A column or return value that holds a JSON object is a sequence: empty  *)
(* when it is NULL, else the one object.                                   *)
NoObject == <<>>

VARIABLES
  routePc,      \* position of router.post('/upload')
  fileType,     \* mimetype/extension class of the uploaded file
  docText,      \* the text extraction yields for the uploaded file
  docClauses,   \* positions of the clauses segmentation yields for the text
  docStatus,    \* contracts.status of the document ("none": no row yet)
  jobStatus,    \* processing_jobs.status ("none": no row yet)
  jobError,     \* processing_jobs.error
  jobResult,    \* processing_jobs.result (NoObject or the summary)
  clauseRows,   \* rows of table clauses of the document, in insert order
  qState,       \* state of the Bull job
  attemptsMade, \* Bull's count of finished, failed attempts
  qReturn,      \* return value Bull stores for a completed job
  hPc,          \* position of the handler inside the current attempt
  hIdx,         \* index of the for-of loop over clauses
  hErr,         \* the error caught by the handler's catch block
  runs,         \* history: number of times the handler was invoked
  kFail,        \* history: per-clause failures caught in this attempt
  nPersist,     \* history: clause rows inserted in this attempt
  attemptLog,   \* history: how each finished attempt ended
  dbFault,      \* history: a write outside the per-clause try has thrown
  callPc,       \* a call of a pure function: "none", "called", "returned"
  callArg,      \* the argument of that call
  callRet,      \* its return value, once returned
  embeddingPipeline, \* the cached model pipeline of embedding.service.js
  pipelineCalls,     \* number of executions of pipeline(...)
  batchPc,        \* position of one call of generateEmbeddingsBatch
  batchN,         \* texts.length of that call
  batchI,         \* its loop variable i
  genPc,          \* position of the generateEmbedding call of each text
  embeddings,     \* its array embeddings: the texts embedded so far
  processing_jobs \* rows of table processing_jobs seen by cleanupOldJobs

vars == <<routePc, fileType, docText, docClauses, docStatus, jobStatus,
          jobError, jobResult, clauseRows, qState, attemptsMade, qReturn,
          hPc, hIdx, hErr, runs, kFail, nPersist, attemptLog, dbFault,
          callPc, callArg, callRet, embeddingPipeline, pipelineCalls,
          batchPc, batchN, batchI, genPc, embeddings, processing_jobs>>

routeVars == <<routePc, fileType, docText, docClauses>>
jobVars == <<jobStatus, jobError, jobResult>>
queueVars == <<qState, attemptsMade, qReturn>>
histVars == <<runs, kFail, nPersist, attemptLog, dbFault>>
callVars == <<callPc, callArg, callRet>>
embedVars == <<embeddingPipeline, pipelineCalls, batchPc, batchN, batchI,
               genPc, embeddings>>
serviceVars == <<embedVars, processing_jobs>>
pipelineVars == <<routeVars, docStatus, jobVars, clauseRows, queueVars, hPc,
                  hIdx, hErr, histVars>>

FileTypes == {"pdf", "docx", "other"}

(* Strictly increasing position lists: segmentClauses numbers the clauses  *)
(* it keeps by the index of the fragment they came from.                   *)
RECURSIVE SeqOfSet(_)
SeqOfSet(S) ==
  IF S = {} THEN <<>>
  ELSE LET m == CHOOSE x \in S : \A y \in S : x <= y
       IN <<m>> \o SeqOfSet(S \ {m})

ClauseLists == {SeqOfSet(S) : S \in SUBSET (0 .. MaxClauses - 1)}

PipelineInit ==
  /\ routePc = "start"
  /\ fileType = NULL
  /\ docText = <<>>
  /\ docClauses = <<>>
  /\ docStatus = "none"
  /\ jobStatus = "none"
  /\ jobError = NULL
  /\ jobResult = NoObject
  /\ clauseRows = <<>>
  /\ qState = "none"
  /\ attemptsMade = 0
  /\ qReturn = NoObject
  /\ hPc = "idle"
  /\ hIdx = 0
  /\ hErr = NULL
  /\ runs = 0
  /\ kFail = 0
  /\ nPersist = 0
  /\ attemptLog = <<>>
  /\ dbFault = FALSE
  /\ embeddingPipeline = NULL
  /\ pipelineCalls = 0
  /\ batchPc = "idle"
  /\ batchN = 0
  /\ batchI = 0
  /\ genPc = <<>>
  /\ embeddings = <<>>
  /\ processing_jobs = <<>>

(* The pipeline as a whole: no isolated call of a pure function.           *)
Init ==
  /\ PipelineInit
  /\ callPc = "none"
  /\ callArg = <<>>
  /\ callRet = <<>>

(***************************************************************************)
(* Texts.  A text is a sequence of tokens, each standing for a run of      *)
(* characters: "nl" one line break, "num" a section number with the blank  *)
(* after it ("2. "), "txt" a run of len characters without a line break    *)
(* that begins and ends with a non-blank and, if dot, ends a sentence with *)
(* a full stop, "sp" the blank inserted by join(' ').                      *)
(***************************************************************************)

(* Largest number of lines of an input text. *)
MaxLines == 3

(* sectionText.trim().length > 20 (clause.service.js 113) *)
MinSectionLen == 20

(* trimmed.length > 50 (clause.service.js 129), clauseText.trim().length > *)
(* 50 (clause.service.js 149)                                              *)
MinParagraphLen == 50

(* const sentencesPerClause = 3 (clause.service.js 145) *)
sentencesPerClause == 3

Tok(k, len, dot) == [k |-> k, len |-> len, dot |-> dot]
NlTok == Tok("nl", 1, FALSE)
NumTok == Tok("num", 3, FALSE)
SpTok == Tok("sp", 1, FALSE)

IsSpace(t) == t.k \in {"nl", "sp"}

(* Line lengths around the two thresholds; 0 is an empty line. *)
LineLens == {0, MinSectionLen, MinSectionLen + 1, MinParagraphLen,
             MinParagraphLen + 1}

(* A line: an optional section number, a body, one or two line breaks.     *)
Lines ==
  {l \in [num : BOOLEAN, len : LineLens, dot : BOOLEAN, sep : 1 .. 2] :
     l.len = 0 => ~l.num /\ ~l.dot}

LineTokens(l) ==
  (IF l.num THEN <<NumTok>> ELSE <<>>)
  \o (IF l.len > 0 THEN <<Tok("txt", l.len, l.dot)>> ELSE <<>>)
  \o [i \in 1 .. l.sep |-> NlTok]

RECURSIVE TextOf(_)
TextOf(ls) ==
  IF ls = <<>> THEN <<>> ELSE LineTokens(Head(ls)) \o TextOf(Tail(ls))

LineSeqs == UNION {[1 .. n -> Lines] : n \in 0 .. MaxLines}

Texts == {TextOf(ls) : ls \in LineSeqs}

(* text.length *)
RECURSIVE CharLen(_)
CharLen(toks) ==
  IF toks = <<>> THEN 0 ELSE Head(toks).len + CharLen(Tail(toks))

(* String.prototype.trim *)
RECURSIVE TrimLeft(_)
TrimLeft(toks) ==
  IF toks # <<>> /\ IsSpace(Head(toks)) THEN TrimLeft(Tail(toks)) ELSE toks

RECURSIVE TrimRight(_)
TrimRight(toks) ==
  IF toks # <<>> /\ IsSpace(toks[Len(toks)])
  THEN TrimRight(SubSeq(toks, 1, Len(toks) - 1))
  ELSE toks

Trim(toks) == TrimRight(TrimLeft(toks))

Nls(n) == [i \in 1 .. n |-> NlTok]

(* text.split(/\n\s*(\d+\.(?:\d+\.?)?)\s+/) (clause.service.js 105): a     *)
(* match is the run of line breaks before a section number together with   *)
(* the number; the result alternates text, captured number, text, ...      *)
(* cur is the fragment being collected, nls the line breaks just read.     *)
RECURSIVE SplitNumbered(_, _, _, _)
SplitNumbered(toks, i, cur, nls) ==
  IF i > Len(toks) THEN <<cur \o Nls(nls)>>
  ELSE IF toks[i].k = "nl" THEN SplitNumbered(toks, i + 1, cur, nls + 1)
  ELSE IF toks[i].k = "num" /\ nls >= 1
       THEN <<cur, <<toks[i]>>>> \o SplitNumbered(toks, i + 1, <<>>, 0)
       ELSE SplitNumbered(toks, i + 1, cur \o Nls(nls) \o <<toks[i]>>, 0)

(* text.split(/\n\s*\n/) (clause.service.js 123): a separator is a run of  *)
(* two or more line breaks.                                                *)
RECURSIVE SplitParagraphs(_, _, _, _)
SplitParagraphs(toks, i, cur, nls) ==
  IF i > Len(toks)
  THEN IF nls >= 2 THEN <<cur, <<>>>> ELSE <<cur \o Nls(nls)>>
  ELSE IF toks[i].k = "nl" THEN SplitParagraphs(toks, i + 1, cur, nls + 1)
  ELSE IF nls >= 2
       THEN <<cur>> \o SplitParagraphs(toks, i + 1, <<toks[i]>>, 0)
       ELSE SplitParagraphs(toks, i + 1, cur \o Nls(nls) \o <<toks[i]>>, 0)

(* new natural.SentenceTokenizer().tokenize(text) (clause.service.js       *)
(* 141-142), a library call: the trimmed pieces of the text that end with  *)
(* a full stop; a text without any sentence end is returned whole.         *)
RECURSIVE SentencesEnding(_, _, _)
SentencesEnding(toks, i, cur) ==
  IF i > Len(toks) THEN <<>>
  ELSE IF toks[i].k = "txt" /\ toks[i].dot
       THEN <<Trim(cur \o <<toks[i]>>)>> \o SentencesEnding(toks, i + 1, <<>>)
       ELSE SentencesEnding(toks, i + 1, cur \o <<toks[i]>>)

tokenize(toks) ==
  LET found == SentencesEnding(toks, 1, <<>>)
  IN IF found = <<>> THEN <<toks>> ELSE found

(* Array.prototype.join(' ') *)
RECURSIVE JoinSp(_)
JoinSp(parts) ==
  IF parts = <<>> THEN <<>>
  ELSE IF Len(parts) = 1 THEN parts[1]
  ELSE parts[1] \o <<SpTok>> \o JoinSp(Tail(parts))

Clause(section, toks, position) ==
  [section_number |-> section, text |-> toks, position |-> position]

(* The loop over numberedSections (clause.service.js 109-120), i counted   *)
(* from 0 as in the source.                                                *)
RECURSIVE NumberedClauses(_, _)
NumberedClauses(numberedSections, i) ==
  IF i >= Len(numberedSections) THEN <<>>
  ELSE LET sectionText == numberedSections[i + 2]
       IN (IF CharLen(Trim(sectionText)) > MinSectionLen
           THEN <<Clause("N.", Trim(sectionText), i \div 2)>>
           ELSE <<>>)
          \o NumberedClauses(numberedSections, i + 2)

(* paragraphs.forEach (clause.service.js 125-136), index counted from 0.   *)
RECURSIVE ParagraphClauses(_, _)
ParagraphClauses(paragraphs, index) ==
  IF index >= Len(paragraphs) THEN <<>>
  ELSE LET trimmed == Trim(paragraphs[index + 1])
       IN (IF CharLen(trimmed) > MinParagraphLen
           THEN <<Clause(NULL, trimmed, index)>>
           ELSE <<>>)
          \o ParagraphClauses(paragraphs, index + 1)

Min(a, b) == IF a < b THEN a ELSE b

(* The sentence-grouping loop (clause.service.js 146-156).                 *)
RECURSIVE SentenceClauses(_, _)
SentenceClauses(sentences, i) ==
  IF i >= Len(sentences) THEN <<>>
  ELSE LET clauseText ==
             JoinSp(SubSeq(sentences, i + 1,
                           Min(i + sentencesPerClause, Len(sentences))))
       IN (IF CharLen(Trim(clauseText)) > MinParagraphLen
           THEN <<Clause(NULL, Trim(clauseText), i \div sentencesPerClause)>>
           ELSE <<>>)
          \o SentenceClauses(sentences, i + sentencesPerClause)

(* The strategy that fills clauses first (clause.service.js 107-137).      *)
FirstStrategy(text) ==
  LET numberedSections == SplitNumbered(text, 1, <<>>, 0)
  IN IF Len(numberedSections) > 3
     THEN NumberedClauses(numberedSections, 1)
     ELSE ParagraphClauses(SplitParagraphs(text, 1, <<>>, 0), 0)

(* segmentClauses (clause.service.js 98-161) *)
segmentClauses(text) ==
  LET clauses == FirstStrategy(text)
  IN IF Len(clauses) = 0
     THEN SentenceClauses(tokenize(text), 0)
     ELSE clauses

(* An isolated call segmentClauses(text).                                  *)
SegmentInit ==
  /\ PipelineInit
  /\ callPc = "called"
  /\ callArg \in Texts
  /\ callRet = <<>>

CallSegmentClauses ==
  /\ callPc = "called"
  /\ callRet' = segmentClauses(callArg)
  /\ callPc' = "returned"
  /\ UNCHANGED <<callArg, pipelineVars, serviceVars>>

SegmentSpec == SegmentInit /\ [][CallSegmentClauses]_vars

(***************************************************************************)
(* router.post('/upload') and queueContractExtraction, one step per await. *)
(***************************************************************************)

(* The texts of uploaded files: up to MaxClauses paragraphs, each empty or *)
(* long enough to be a clause.                                             *)
UploadLines ==
  {l \in Lines : ~l.num /\ l.sep = 2 /\ l.len \in {0, MinParagraphLen + 1}
                  /\ (l.len > 0 => l.dot)}

UploadTexts ==
  {TextOf(ls) : ls \in UNION {[1 .. n -> UploadLines] : n \in 0 .. MaxClauses}}

(* clause.position of each clause, in order (queue.service.js 54, 69)      *)
Positions(clauses) == [i \in 1 .. Len(clauses) |-> clauses[i].position]

(* INSERT INTO contracts ... 'uploaded' (contract.routes.js 31-44).  The   *)
(* uploaded file fixes the file type and, through extraction and           *)
(* segmentation, the clause candidates of every later attempt.             *)
UploadInsert ==
  /\ routePc = "start"
  /\ \E ft \in FileTypes, tx \in UploadTexts, ok \in BOOLEAN :
       /\ fileType' = ft
       /\ docText' = tx
       /\ docClauses' = Positions(segmentClauses(tx))
       /\ IF ok
          THEN /\ docStatus' = "uploaded"
               /\ routePc' = "inserted"
               /\ dbFault' = dbFault
          ELSE /\ docStatus' = docStatus
               /\ routePc' = "error"
               /\ dbFault' = TRUE
  /\ UNCHANGED <<jobVars, clauseRows, queueVars, hPc, hIdx, hErr, runs,
                 kFail, nPersist, attemptLog>>
  /\ UNCHANGED <<callVars, serviceVars>>

(* INSERT INTO processing_jobs ... 'pending' (queue.service.js 157-164);   *)
(* a throw is rethrown to the route, which answers 500.                    *)
QueueInsertJob ==
  /\ routePc = "inserted"
  /\ \E ok \in BOOLEAN :
       IF ok
       THEN /\ jobStatus' = "pending"
            /\ routePc' = "jobInserted"
            /\ dbFault' = dbFault
       ELSE /\ jobStatus' = jobStatus
            /\ routePc' = "error"
            /\ dbFault' = TRUE
  /\ UNCHANGED <<fileType, docText, docClauses, docStatus, jobError, jobResult,
                 clauseRows, queueVars, hPc, hIdx, hErr, runs, kFail,
                 nPersist, attemptLog>>
  /\ UNCHANGED <<callVars, serviceVars>>

(* contractQueue.add('extract-text', ..., {attempts: 3, ...})              *)
(* (queue.service.js 167-181); a throw is rethrown to the route.           *)
QueueAdd ==
  /\ routePc = "jobInserted"
  /\ \E ok \in BOOLEAN :
       IF ok
       THEN /\ qState' = "waiting"
            /\ routePc' = "queued"
       ELSE /\ qState' = qState
            /\ routePc' = "error"
  /\ UNCHANGED <<fileType, docText, docClauses, docStatus, jobVars, clauseRows,
                 attemptsMade, qReturn, hPc, hIdx, hErr, histVars>>
  /\ UNCHANGED <<callVars, serviceVars>>

(* UPDATE contracts SET status = 'processing' (contract.routes.js 57-60),  *)
(* issued by the route after the job is already in the queue.              *)
RouteMarkProcessing ==
  /\ routePc = "queued"
  /\ \E ok \in BOOLEAN :
       IF ok
       THEN /\ docStatus' = "processing"
            /\ routePc' = "done"
            /\ dbFault' = dbFault
       ELSE /\ docStatus' = docStatus
            /\ routePc' = "error"
            /\ dbFault' = TRUE
  /\ UNCHANGED <<fileType, docText, docClauses, jobVars, clauseRows,
                 queueVars, hPc, hIdx, hErr, runs, kFail, nPersist,
                 attemptLog>>
  /\ UNCHANGED <<callVars, serviceVars>>

(***************************************************************************)
(* contractQueue.process('extract-text', ...), one step per await.  A      *)
(* throw inside the try block moves to the catch block with the error.     *)
(***************************************************************************)

(* Bull hands a waiting job to the handler; the handler's first write is   *)
(* UPDATE processing_jobs SET status = 'processing' (queue.service.js      *)
(* 21-26), on the record named by job.data.jobId in every attempt.         *)
HandlerStart ==
  /\ qState = "waiting"
  /\ hPc = "idle"
  /\ qState' = "active"
  /\ runs' = runs + 1
  /\ kFail' = 0
  /\ nPersist' = 0
  /\ hIdx' = 0
  /\ \E ok \in BOOLEAN :
       IF ok
       THEN /\ jobStatus' = "processing"
            /\ hPc' = "extract"
            /\ hErr' = NULL
            /\ dbFault' = dbFault
       ELSE /\ jobStatus' = jobStatus
            /\ hPc' = "catchDoc"
            /\ hErr' = "db"
            /\ dbFault' = TRUE
  /\ UNCHANGED <<routeVars, docStatus, jobError, jobResult, clauseRows,
                 attemptsMade, qReturn, attemptLog>>
  /\ UNCHANGED <<callVars, serviceVars>>

(* extractText (extraction.service.js 116-142): an unsupported type always *)
(* throws; a PDF or DOCX is parsed, which may throw.  getFileSize never    *)
(* throws.                                                                 *)
HandlerExtract ==
  /\ hPc = "extract"
  /\ IF fileType = "other"
     THEN /\ hPc' = "catchDoc"
          /\ hErr' = "Unsupported file type"
     ELSE \E ok \in BOOLEAN :
            IF ok
            THEN /\ hPc' = "updDoc"
                 /\ hErr' = hErr
            ELSE /\ hPc' = "catchDoc"
                 /\ hErr' = "Failed to extract text"
  /\ UNCHANGED <<routeVars, docStatus, jobVars, clauseRows, queueVars, hIdx,
                 histVars>>
  /\ UNCHANGED <<callVars, serviceVars>>

(* UPDATE contracts SET extracted_text, metadata, status = 'processing'    *)
(* (queue.service.js 33-46).                                               *)
HandlerUpdDoc ==
  /\ hPc = "updDoc"
  /\ \E ok \in BOOLEAN :
       IF ok
       THEN /\ docStatus' = "processing"
            /\ hPc' = "classify"
            /\ hErr' = hErr
            /\ dbFault' = dbFault
       ELSE /\ docStatus' = docStatus
            /\ hPc' = "catchDoc"
            /\ hErr' = "db"
            /\ dbFault' = TRUE
  /\ UNCHANGED <<routeVars, jobVars, clauseRows, queueVars, hIdx, runs,
                 kFail, nPersist, attemptLog>>
  /\ UNCHANGED <<callVars, serviceVars>>

(* extractAndClassifyClauses (clause.service.js 331-366): segments, then   *)
(* classifies, titles and risk-scores every clause inside one map with no  *)
(* per-clause try; a throw for any clause is rethrown to the handler.      *)
HandlerClassify ==
  /\ hPc = "classify"
  /\ \E ok \in (IF docClauses = <<>> THEN {TRUE} ELSE BOOLEAN) :
       IF ok
       THEN /\ hPc' = "clauses"
            /\ hIdx' = 1
            /\ hErr' = hErr
       ELSE /\ hPc' = "catchDoc"
            /\ hIdx' = hIdx
            /\ hErr' = "classification"
  /\ UNCHANGED <<routeVars, docStatus, jobVars, clauseRows, queueVars,
                 histVars>>
  /\ UNCHANGED <<callVars, serviceVars>>

(* One iteration of the for-of loop (queue.service.js 54-87):              *)
(* generateEmbedding, then INSERT INTO clauses; a throw of either is       *)
(* caught, logged, and the loop goes on.                                   *)
HandlerClause ==
  /\ hPc = "clauses"
  /\ hIdx <= Len(docClauses)
  /\ \E outcome \in {"ok", "embeddingThrows", "insertThrows"} :
       /\ IF outcome = "ok"
          THEN /\ clauseRows' = Append(clauseRows, docClauses[hIdx])
               /\ nPersist' = nPersist + 1
               /\ kFail' = kFail
          ELSE /\ clauseRows' = clauseRows
               /\ nPersist' = nPersist
               /\ kFail' = kFail + 1
  /\ hIdx' = hIdx + 1
  /\ UNCHANGED <<routeVars, docStatus, jobVars, queueVars, hPc, hErr, runs,
                 attemptLog, dbFault>>
  /\ UNCHANGED <<callVars, serviceVars>>

(* UPDATE contracts SET status = 'analyzed' (queue.service.js 90-93).      *)
HandlerUpdAnalyzed ==
  /\ hPc = "clauses"
  /\ hIdx > Len(docClauses)
  /\ \E ok \in BOOLEAN :
       IF ok
       THEN /\ docStatus' = "analyzed"
            /\ hPc' = "updCompleted"
            /\ hErr' = hErr
            /\ dbFault' = dbFault
       ELSE /\ docStatus' = docStatus
            /\ hPc' = "catchDoc"
            /\ hErr' = "db"
            /\ dbFault' = TRUE
  /\ UNCHANGED <<routeVars, jobVars, clauseRows, queueVars, hIdx, runs,
                 kFail, nPersist, attemptLog>>
  /\ UNCHANGED <<callVars, serviceVars>>

(* clauseCount: clauses.length (queue.service.js 109 and 122)              *)
ClauseCount == Len(docClauses)

(* The summary object written to the result column and returned.           *)
Summary == <<[success |-> TRUE, clauseCount |-> ClauseCount]>>

(* UPDATE processing_jobs SET status = 'completed', result = {...}         *)
(* (queue.service.js 96-113); the error column is not written.             *)
HandlerUpdCompleted ==
  /\ hPc = "updCompleted"
  /\ \E ok \in BOOLEAN :
       IF ok
       THEN /\ jobStatus' = "completed"
            /\ jobResult' = Summary
            /\ hPc' = "return"
            /\ hErr' = hErr
            /\ dbFault' = dbFault
       ELSE /\ jobStatus' = jobStatus
            /\ jobResult' = jobResult
            /\ hPc' = "catchDoc"
            /\ hErr' = "db"
            /\ dbFault' = TRUE
  /\ UNCHANGED <<routeVars, docStatus, jobError, clauseRows, queueVars,
                 hIdx, runs, kFail, nPersist, attemptLog>>
  /\ UNCHANGED <<callVars, serviceVars>>

(* return {success: true, ..., clauseCount} (queue.service.js 117-123):    *)
(* Bull marks the job completed and stores the return value.               *)
HandlerReturn ==
  /\ hPc = "return"
  /\ qState' = "completed"
  /\ qReturn' = Summary
  /\ hPc' = "idle"
  /\ attemptLog' = Append(attemptLog, [end |-> "returned", err |-> hErr,
                                        kFail |-> kFail])
  /\ UNCHANGED <<routeVars, docStatus, jobVars, clauseRows, attemptsMade,
                 hIdx, hErr, runs, kFail, nPersist, dbFault>>
  /\ UNCHANGED <<callVars, serviceVars>>

(* catch: UPDATE contracts SET status = 'failed' (queue.service.js         *)
(* 129-134).  The write is not guarded: if it throws, the handler rejects  *)
(* at once and the job record is not written.                              *)
HandlerCatchDoc ==
  /\ hPc = "catchDoc"
  /\ \E ok \in BOOLEAN :
       IF ok
       THEN /\ docStatus' = "failed"
            /\ hPc' = "catchJob"
            /\ dbFault' = dbFault
       ELSE /\ docStatus' = docStatus
            /\ hPc' = "reject"
            /\ dbFault' = TRUE
  /\ UNCHANGED <<routeVars, jobVars, clauseRows, queueVars, hIdx, hErr,
                 runs, kFail, nPersist, attemptLog>>
  /\ UNCHANGED <<callVars, serviceVars>>

(* catch: UPDATE processing_jobs SET status = 'failed', error = message    *)
(* (queue.service.js 137-145), then throw error; the result column is not  *)
(* written.                                                                *)
HandlerCatchJob ==
  /\ hPc = "catchJob"
  /\ \E ok \in BOOLEAN :
       IF ok
       THEN /\ jobStatus' = "failed"
            /\ jobError' = hErr
            /\ dbFault' = dbFault
       ELSE /\ jobStatus' = jobStatus
            /\ jobError' = jobError
            /\ dbFault' = TRUE
  /\ hPc' = "reject"
  /\ UNCHANGED <<routeVars, docStatus, jobResult, clauseRows, queueVars,
                 hIdx, hErr, runs, kFail, nPersist, attemptLog>>
  /\ UNCHANGED <<callVars, serviceVars>>

(* A retry rule that is off by one: it allows a fourth attempt.           *)
AfterFailedAttemptOffByOne(made) ==
  IF made <= Attempts THEN "waiting" ELSE "failed"

(* Bull's retry rule under attempts: 3 (queue.service.js 173-181): a job   *)
(* whose handler threw is queued again until it has failed three times.    *)
AfterFailedAttempt(made) ==
  IF made < Attempts THEN "waiting" ELSE "failed"

(* The handler's promise rejects (queue.service.js 147): Bull counts the   *)
(* attempt and, with attempts: 3, puts the job back after the backoff      *)
(* delay until three attempts have failed (queue.service.js 173-181).      *)
HandlerReject ==
  /\ hPc = "reject"
  /\ attemptsMade' = attemptsMade + 1
  /\ qState' = AfterFailedAttempt(attemptsMade + 1)
  /\ hPc' = "idle"
  /\ attemptLog' = Append(attemptLog, [end |-> "threw", err |-> hErr,
                                        kFail |-> kFail])
  /\ hErr' = NULL
  /\ UNCHANGED <<routeVars, docStatus, jobVars, clauseRows, qReturn, hIdx,
                 runs, kFail, nPersist, dbFault>>
  /\ UNCHANGED <<callVars, serviceVars>>

Next ==
  \/ UploadInsert
  \/ QueueInsertJob
  \/ QueueAdd
  \/ RouteMarkProcessing
  \/ HandlerStart
  \/ HandlerExtract
  \/ HandlerUpdDoc
  \/ HandlerClassify
  \/ HandlerClause
  \/ HandlerUpdAnalyzed
  \/ HandlerUpdCompleted
  \/ HandlerReturn
  \/ HandlerCatchDoc
  \/ HandlerCatchJob
  \/ HandlerReject

Spec == Init /\ [][Next]_vars

TypeOK ==
  /\ routePc \in {"start", "inserted", "jobInserted", "queued", "done",
                  "error"}
  /\ docStatus \in {"none", "uploaded", "processing", "analyzed", "failed"}
  /\ jobStatus \in {"none", "pending", "processing", "completed", "failed"}
  /\ qState \in {"none", "waiting", "active", "completed", "failed"}
  /\ attemptsMade \in 0 .. Attempts
  /\ runs \in 0 .. Attempts
  /\ hIdx \in 0 .. MaxClauses + 1
  /\ Len(attemptLog) <= Attempts
  /\ docClauses \in ClauseLists

(***************************************************************************)
(* classifyClause (clause.service.js 168-216).  A clause text is           *)
(* represented by the set of indicator patterns of CLAUSE_PATTERNS that    *)
(* match it; pattern.test(text) is membership in that set.  The entity     *)
(* extraction and the word count do not influence clause_type or           *)
(* confidence and are left out.                                            *)
(***************************************************************************)

(* Largest number of indicator patterns one clause text matches. *)
MaxMatches == 3

(* The keys of CLAUSE_PATTERNS in declaration order (clause.service.js     *)
(* 11-91) and the number of patterns of each.                              *)
ClauseTypes ==
  << "confidentiality", "termination", "liability", "payment",
     "intellectual_property", "governing_law", "warranty", "force_majeure",
     "assignment", "amendment", "entire_agreement", "severability" >>

PatternCount == << 5, 5, 5, 6, 6, 5, 4, 4, 4, 4, 4, 3 >>

TypeIndex == 1 .. Len(ClauseTypes)

Pattern(t, i) == [type |-> ClauseTypes[t], idx |-> i]

CLAUSE_PATTERNS ==
  UNION {{Pattern(t, i) : i \in 1 .. PatternCount[t]} : t \in TypeIndex}

(* /limitation of liability/i cannot match without /liabilit(y|ies)/i      *)
(* matching too (clause.service.js 27, 30); every other combination of     *)
(* patterns is matched by some text.                                       *)
Matchable(text) ==
  Pattern(3, 4) \in text => Pattern(3, 1) \in text

RECURSIVE MatchSetsUpTo(_)
MatchSetsUpTo(n) ==
  IF n = 0 THEN {{}}
  ELSE LET smaller == MatchSetsUpTo(n - 1)
       IN smaller \cup {m \cup {p} : m \in smaller, p \in CLAUSE_PATTERNS}

ClauseTexts == {text \in MatchSetsUpTo(MaxMatches) : Matchable(text)}

(* pattern.test(text) (clause.service.js 179) *)
Test(pattern, text) == pattern \in text

(* The inner loop over the patterns of one type (clause.service.js         *)
(* 176-182): score += 1 for each pattern that matches.                     *)
RECURSIVE ScoreLoop(_, _, _, _)
ScoreLoop(t, i, text, score) ==
  IF i > PatternCount[t] THEN score
  ELSE ScoreLoop(t, i + 1, text,
                 IF Test(Pattern(t, i), text) THEN score + 1 ELSE score)

(* scores (clause.service.js 173-185) *)
Scores(text) == [t \in TypeIndex |-> ScoreLoop(t, 1, text, 0)]

(* score > maxScore (clause.service.js 192) *)
OverwritesOnTie(score, maxScore) == score >= maxScore
Overwrites(score, maxScore) == score > maxScore

(* The loop that finds the highest scoring type (clause.service.js         *)
(* 188-196), started with maxScore = 0 and clauseType = 'general'.         *)
RECURSIVE MaxLoop(_, _, _, _)
MaxLoop(scores, t, maxScore, clauseType) ==
  IF t > Len(scores) THEN [maxScore |-> maxScore, clauseType |-> clauseType]
  ELSE IF Overwrites(scores[t], maxScore)
       THEN MaxLoop(scores, t + 1, scores[t], ClauseTypes[t])
       ELSE MaxLoop(scores, t + 1, maxScore, clauseType)

(* Object.values(scores).reduce((a, b) => a + b, 0)                        *)
(* (clause.service.js 199)                                                 *)
RECURSIVE Reduce(_, _, _)
Reduce(scores, t, a) ==
  IF t > Len(scores) THEN a ELSE Reduce(scores, t + 1, a + scores[t])

(* A confidence is a fraction <<numerator, denominator>>; 0.5 is 1/2.      *)
Frac(n, d) == <<n, d>>
Half == Frac(1, 2)
One == Frac(1, 1)
FracLeq(a, b) == a[1] * b[2] <= b[1] * a[2]
FracEq(a, b) == a[1] * b[2] = b[1] * a[2]

(* totalMatches > 0 ? maxScore / totalMatches : 0.5                        *)
(* (clause.service.js 200)                                                 *)
ConfidenceZeroDefault(maxScore, totalMatches) ==
  IF totalMatches > 0 THEN Frac(maxScore, totalMatches) ELSE Frac(0, 1)
Confidence(maxScore, totalMatches) ==
  IF totalMatches > 0 THEN Frac(maxScore, totalMatches) ELSE Half

(* Math.min(confidence, 1.0) (clause.service.js 212) *)
MathMin(a, b) == IF FracLeq(a, b) THEN a ELSE b

classifyClause(text) ==
  LET scores == Scores(text)
      best == MaxLoop(scores, 1, 0, "general")
      totalMatches == Reduce(scores, 1, 0)
      confidence == Confidence(best.maxScore, totalMatches)
  IN [clause_type |-> best.clauseType,
      confidence |-> MathMin(confidence, One)]

(* An isolated call classifyClause(text).                                  *)
ClassifyInit ==
  /\ PipelineInit
  /\ callPc = "called"
  /\ callArg \in ClauseTexts
  /\ callRet = <<>>

CallClassifyClause ==
  /\ callPc = "called"
  /\ callRet' = <<classifyClause(callArg)>>
  /\ callPc' = "returned"
  /\ UNCHANGED <<callArg, pipelineVars, serviceVars>>

ClassifySpec == ClassifyInit /\ [][CallClassifyClause]_vars

(***************************************************************************)
(* analyzeClauseRisk (clause.service.js 259-324) and the way its result    *)
(* reaches the clauses table.  A clause text is represented by the set of  *)
(* risk patterns of riskIndicators that match it.                          *)
(***************************************************************************)

(* The numbers of high, medium and low patterns of riskIndicators          *)
(* (clause.service.js 262-288).                                            *)
RiskPatternCount == [high |-> 8, medium |-> 6, low |-> 5]

Severities == {"high", "medium", "low"}

RiskPattern(sev, i) == [severity |-> sev, idx |-> i]

riskIndicators ==
  UNION {{RiskPattern(sev, i) : i \in 1 .. RiskPatternCount[sev]} :
           sev \in Severities}

(* /commercially reasonable/i cannot match without /reasonable/i matching  *)
(* too (clause.service.js 282, 286).                                       *)
RiskMatchable(text) ==
  RiskPattern("low", 5) \in text => RiskPattern("low", 1) \in text

RECURSIVE RiskMatchSetsUpTo(_)
RiskMatchSetsUpTo(n) ==
  IF n = 0 THEN {{}}
  ELSE LET smaller == RiskMatchSetsUpTo(n - 1)
       IN smaller \cup {m \cup {p} : m \in smaller, p \in riskIndicators}

RiskTexts == {text \in RiskMatchSetsUpTo(MaxMatches) : RiskMatchable(text)}

(* The clause types classifyClause can hand over as second argument.       *)
ClauseTypeArgs == {ClauseTypes[t] : t \in TypeIndex} \cup {"general"}

(* severity: 'high' / 'medium', pattern: pattern.source                    *)
(* (clause.service.js 297-301, 310-314)                                    *)
FlagAlwaysHigh(sev, i) == [severity |-> "high", pattern |-> i]
Flag(sev, i) == [severity |-> sev, pattern |-> i]

(* One of the two pattern loops (clause.service.js 294-303, 307-316): each *)
(* matching pattern sets riskLevel to the loop's severity and pushes a     *)
(* flag.                                                                   *)
RECURSIVE PatternLoop(_, _, _, _)
PatternLoop(sev, i, text, acc) ==
  IF i > RiskPatternCount[sev] THEN acc
  ELSE PatternLoop(sev, i + 1, text,
         IF RiskPattern(sev, i) \in text
         THEN [riskLevel |-> sev, flags |-> Append(acc.flags, Flag(sev, i))]
         ELSE acc)

(* if (riskLevel !== 'high') (clause.service.js 306) *)
ChecksMediumAlways(riskLevel) == TRUE
ChecksMedium(riskLevel) == riskLevel # "high"

(* requires_review: riskLevel !== 'low' (clause.service.js 322) *)
RequiresReviewOnlyHigh(riskLevel) == riskLevel = "high"
RequiresReview(riskLevel) == riskLevel # "low"

analyzeClauseRisk(text, clauseType) ==
  LET start == [riskLevel |-> "low", flags |-> <<>>]
      afterHigh == PatternLoop("high", 1, text, start)
      afterMedium == IF ChecksMedium(afterHigh.riskLevel)
                     THEN PatternLoop("medium", 1, text, afterHigh)
                     ELSE afterHigh
  IN [risk_level |-> afterMedium.riskLevel,
      flags |-> afterMedium.flags,
      requires_review |-> RequiresReview(afterMedium.riskLevel)]

(* The risk fields of a processed clause (clause.service.js 353-355).      *)
ProcessedClause(risk) ==
  [risk_level |-> risk.risk_level,
   risk_flags |-> risk.flags,
   requires_review |-> risk.requires_review]

(* The risk columns of the inserted row: parameters $10, $11, $12 of       *)
(* INSERT INTO clauses (queue.service.js 61-82).                           *)
ClauseRow(clause) ==
  [risk_level |-> clause.risk_level,
   risk_flags |-> clause.risk_flags,
   requires_review |-> clause.requires_review]

(* An isolated call analyzeClauseRisk(text, clauseType), followed by the   *)
(* insertion of the clause built from its result.                          *)
RiskInit ==
  /\ PipelineInit
  /\ callPc = "called"
  /\ callArg \in {<<text, ty>> : text \in RiskTexts, ty \in ClauseTypeArgs}
  /\ callRet = <<>>

CallAnalyzeClauseRisk ==
  /\ callPc = "called"
  /\ callRet' = <<analyzeClauseRisk(callArg[1], callArg[2])>>
  /\ callPc' = "returned"
  /\ UNCHANGED <<callArg, pipelineVars, serviceVars>>

(* The clause is inserted, or the embedding or the INSERT throws and the   *)
(* clause is skipped (queue.service.js 55-86).                             *)
InsertClause ==
  /\ callPc = "returned"
  /\ \E ok \in BOOLEAN :
       IF ok
       THEN /\ callRet' = Append(callRet,
                               ClauseRow(ProcessedClause(callRet[1])))
            /\ callPc' = "inserted"
       ELSE /\ callRet' = callRet
            /\ callPc' = "skipped"
  /\ UNCHANGED <<callArg, pipelineVars, serviceVars>>

RiskNext == CallAnalyzeClauseRisk \/ InsertClause

RiskSpec == RiskInit /\ [][RiskNext]_vars

(***************************************************************************)
(* cosineSimilarity (embedding.service.js 142-165).  Vector components are *)
(* small integers; a square root is kept as the number under the root, so  *)
(* that the test for zero and the division are the ones the code makes.    *)
(***************************************************************************)

(* Largest dimension of an embedding vector. *)
MaxDim == 2

Components == {-1, 0, 1}

Vectors == UNION {[1 .. n -> Components] : n \in 0 .. MaxDim}

(* The sums of the loop (embedding.service.js 147-155). *)
RECURSIVE SumLoop(_, _, _, _)
SumLoop(embedding1, embedding2, i, acc) ==
  IF i > Len(embedding1) THEN acc
  ELSE SumLoop(embedding1, embedding2, i + 1,
         [dotProduct |-> acc.dotProduct + embedding1[i] * embedding2[i],
          norm1 |-> acc.norm1 + embedding1[i] * embedding1[i],
          norm2 |-> acc.norm2 + embedding2[i] * embedding2[i]])

(* Math.sqrt(x), kept as the root of x (embedding.service.js 157-158). *)
MathSqrt(x) == [sqrtOf |-> x]

(* The results of a call: a thrown Error or a returned Number, which may   *)
(* be NaN or an infinity when a division by zero took place.               *)
Thrown(message) == [kind |-> "error", message |-> message, num |-> 0,
                    denSqrtOf |-> 1]
Number(num, denSqrtOf) == [kind |-> "number", message |-> NULL, num |-> num,
                           denSqrtOf |-> denSqrtOf]
NotANumber == [kind |-> "NaN", message |-> NULL, num |-> 0, denSqrtOf |-> 0]
Infinite(num) == [kind |-> "Infinity", message |-> NULL, num |-> num,
                  denSqrtOf |-> 0]

(* dotProduct / (norm1 * norm2) (embedding.service.js 164) *)
Divide(dotProduct, norm1, norm2) ==
  LET den == norm1.sqrtOf * norm2.sqrtOf
  IN IF den # 0 THEN Number(dotProduct, den)
     ELSE IF dotProduct = 0 THEN NotANumber
     ELSE Infinite(dotProduct)

(* norm1 === 0 || norm2 === 0 (embedding.service.js 160) *)
EitherNormZeroNever(norm1, norm2) == FALSE
EitherNormZero(norm1, norm2) == norm1.sqrtOf = 0 \/ norm2.sqrtOf = 0

cosineSimilarity(embedding1, embedding2) ==
  IF Len(embedding1) # Len(embedding2)
  THEN Thrown("Embeddings must have the same dimension")
  ELSE LET sums == SumLoop(embedding1, embedding2, 1,
                           [dotProduct |-> 0, norm1 |-> 0, norm2 |-> 0])
           norm1 == MathSqrt(sums.norm1)
           norm2 == MathSqrt(sums.norm2)
       IN IF EitherNormZero(norm1, norm2)
          THEN Number(0, 1)
          ELSE Divide(sums.dotProduct, norm1, norm2)

(* An isolated call cosineSimilarity(embedding1, embedding2).              *)
CosineInit ==
  /\ PipelineInit
  /\ callPc = "called"
  /\ callArg \in Vectors \X Vectors
  /\ callRet = <<>>

CallCosineSimilarity ==
  /\ callPc = "called"
  /\ callRet' = <<cosineSimilarity(callArg[1], callArg[2])>>
  /\ callPc' = "returned"
  /\ UNCHANGED <<callArg, pipelineVars, serviceVars>>

CosineSpec == CosineInit /\ [][CallCosineSimilarity]_vars

(***************************************************************************)
(* formatEmbeddingForDB and parseEmbeddingFromDB (embedding.service.js     *)
(* 206-222).  A string is a sequence of characters; a Number is an integer *)
(* or NaN.                                                                 *)
(***************************************************************************)

Num(v) == [nan |-> FALSE, val |-> v]
NaN == [nan |-> TRUE, val |-> 0]

NumValues == {Num(v) : v \in {-12, -3, -1, 0, 1, 7, 10}}

Embeddings == UNION {[1 .. n -> NumValues] : n \in 0 .. MaxDim}

Digits == << "0", "1", "2", "3", "4", "5", "6", "7", "8", "9" >>

DigitValue(c) == CHOOSE d \in 0 .. 9 : Digits[d + 1] = c

IsDigit(c) == \E d \in 0 .. 9 : Digits[d + 1] = c

(* The decimal digits of a non-negative integer. *)
RECURSIVE DigitString(_)
DigitString(n) ==
  IF n < 10 THEN <<Digits[n + 1]>>
  ELSE DigitString(n \div 10) \o <<Digits[(n % 10) + 1]>>

(* String(x) of an array element, as Array.prototype.join applies it.      *)
NumberToString(x) ==
  IF x.nan THEN << "N", "a", "N" >>
  ELSE IF x.val < 0 THEN << "-" >> \o DigitString(-x.val)
  ELSE DigitString(x.val)

(* embedding.join(',') (embedding.service.js 208) *)
RECURSIVE Join(_, _)
Join(embedding, i) ==
  IF i > Len(embedding) THEN <<>>
  ELSE (IF i > 1 THEN << "," >> ELSE <<>>)
       \o NumberToString(embedding[i]) \o Join(embedding, i + 1)

formatEmbeddingForDB(embedding) == << "[" >> \o Join(embedding, 1) \o << "]" >>

(* vectorString.replace(/^\[|\]$/g, '') (embedding.service.js 219) *)
StripBrackets(str) ==
  LET noOpen == IF str # <<>> /\ str[1] = "["
                THEN SubSeq(str, 2, Len(str)) ELSE str
  IN IF noOpen # <<>> /\ noOpen[Len(noOpen)] = "]"
     THEN SubSeq(noOpen, 1, Len(noOpen) - 1) ELSE noOpen

(* str.split(',') (embedding.service.js 220): the pieces between commas,   *)
(* one empty piece for the empty string.                                   *)
RECURSIVE Split(_, _, _)
Split(str, i, cur) ==
  IF i > Len(str) THEN <<cur>>
  ELSE IF str[i] = "," THEN <<cur>> \o Split(str, i + 1, <<>>)
  ELSE Split(str, i + 1, Append(cur, str[i]))

(* The value of the longest run of digits at the start of a string.        *)
RECURSIVE DigitPrefix(_, _, _)
DigitPrefix(str, i, acc) ==
  IF i > Len(str) \/ ~IsDigit(str[i]) THEN [val |-> acc, read |-> i - 1]
  ELSE DigitPrefix(str, i + 1, 10 * acc + DigitValue(str[i]))

(* parseFloat(piece): an optional sign and digits; NaN when no digit is    *)
(* read (embedding.service.js 221).                                        *)
parseFloat(piece) ==
  LET negative == piece # <<>> /\ piece[1] = "-"
      rest == IF negative THEN SubSeq(piece, 2, Len(piece)) ELSE piece
      digits == DigitPrefix(rest, 1, 0)
  IN IF digits.read = 0 THEN NaN
     ELSE IF negative THEN Num(-digits.val) ELSE Num(digits.val)

parseEmbeddingFromDB(vectorString) ==
  LET pieces == Split(StripBrackets(vectorString), 1, <<>>)
  IN [i \in 1 .. Len(pieces) |-> parseFloat(pieces[i])]

(* formatEmbeddingForDB(v), then parseEmbeddingFromDB of the string.       *)
RoundTripInit ==
  /\ PipelineInit
  /\ callPc = "called"
  /\ callArg \in Embeddings
  /\ callRet = <<>>

CallFormatEmbeddingForDB ==
  /\ callPc = "called"
  /\ callRet' = <<formatEmbeddingForDB(callArg)>>
  /\ callPc' = "formatted"
  /\ UNCHANGED <<callArg, pipelineVars, serviceVars>>

CallParseEmbeddingFromDB ==
  /\ callPc = "formatted"
  /\ callRet' = <<callRet[1], parseEmbeddingFromDB(callRet[1])>>
  /\ callPc' = "parsed"
  /\ UNCHANGED <<callArg, pipelineVars, serviceVars>>

RoundTripNext == CallFormatEmbeddingForDB \/ CallParseEmbeddingFromDB

RoundTripSpec == RoundTripInit /\ [][RoundTripNext]_vars

(***************************************************************************)
(* findSimilar (embedding.service.js 174-199).  The embeddings that        *)
(* generateEmbedding and generateEmbeddingsBatch produce for the query and *)
(* the candidate texts are the inputs; a candidate text is identified with *)
(* its index in candidateTexts.                                            *)
(***************************************************************************)

(* Largest number of candidate texts. *)
MaxCandidates == 3

(* Embeddings of one dimension, as one model produces them. *)
ModelEmbeddings == {<<1, 0>>, <<0, 1>>, <<1, 1>>, <<-1, 0>>, <<0, 0>>}

CandidateLists ==
  UNION {[1 .. n -> ModelEmbeddings] : n \in 0 .. MaxCandidates}

TopKs == 0 .. MaxCandidates + 1

(* The sign of a - b for two Numbers num / sqrt(denSqrtOf). *)
Sign(n) == IF n > 0 THEN 1 ELSE IF n < 0 THEN -1 ELSE 0

SignedSquare(x, y) == Sign(x.num) * x.num * x.num * y.denSqrtOf

Minus(a, b) == Sign(SignedSquare(a, b) - SignedSquare(b, a))

(* similarities (embedding.service.js 183-187) *)
Similarities(queryEmbedding, candidateEmbeddings) ==
  [index \in 1 .. Len(candidateEmbeddings) |->
     [index |-> index,
      similarity |-> cosineSimilarity(queryEmbedding,
                                      candidateEmbeddings[index])]]

(* (a, b) => b.similarity - a.similarity (embedding.service.js 190) *)
compareAscending(a, b) == Minus(a.similarity, b.similarity)
compare(a, b) == Minus(b.similarity, a.similarity)

(* Array.prototype.sort with a comparator: a stable sort, an element is    *)
(* placed before the first element the comparator puts after it.           *)
RECURSIVE Insert(_, _, _)
Insert(sorted, x, i) ==
  IF i > Len(sorted) THEN Append(sorted, x)
  ELSE IF compare(sorted[i], x) > 0
       THEN SubSeq(sorted, 1, i - 1) \o <<x>> \o SubSeq(sorted, i, Len(sorted))
       ELSE Insert(sorted, x, i + 1)

RECURSIVE Sort(_, _, _)
Sort(array, i, sorted) ==
  IF i > Len(array) THEN sorted
  ELSE Sort(array, i + 1, Insert(sorted, array[i], 1))

(* array.slice(0, topK) for topK >= 0 (embedding.service.js 193) *)
Slice(array, topK) == SubSeq(array, 1, Min(topK, Len(array)))

findSimilar(queryEmbedding, candidateEmbeddings, topK) ==
  Slice(Sort(Similarities(queryEmbedding, candidateEmbeddings), 1, <<>>),
        topK)

(* An isolated call findSimilar(queryText, candidateTexts, topK).          *)
FindInit ==
  /\ PipelineInit
  /\ callPc = "called"
  /\ callArg \in ModelEmbeddings \X CandidateLists \X TopKs
  /\ callRet = <<>>

(* The call returns the top K, or generating an embedding throws and the   *)
(* error is rethrown (embedding.service.js 195-198).                       *)
CallFindSimilar ==
  /\ callPc = "called"
  /\ \E ok \in BOOLEAN :
       IF ok
       THEN /\ callRet' = findSimilar(callArg[1], callArg[2], callArg[3])
            /\ callPc' = "returned"
       ELSE /\ callRet' = callRet
            /\ callPc' = "thrown"
  /\ UNCHANGED <<callArg, pipelineVars, serviceVars>>

FindSpec == FindInit /\ [][CallFindSimilar]_vars

(***************************************************************************)
(* The embedding model and generateEmbeddingsBatch (embedding.service.js   *)
(* 10-37, 76-134).  One call generateEmbeddingsBatch(texts) in a process   *)
(* whose model is not loaded yet.  The code between two awaits runs        *)
(* without interruption, so batch.map starts all calls of a batch in one   *)
(* step; each awaited promise then settles in its own step.                *)
(***************************************************************************)

(* Largest number of texts of the call. *)
MaxTexts == 11

(* const batchSize = 10 (embedding.service.js 113) *)
batchSize == 10

(* texts.slice(i, i + batchSize) (embedding.service.js 116), as the set of *)
(* the numbers of the texts of the batch.                                  *)
BatchWhole(i, n) == (i + 1) .. n
Batch(i, n) == (i + 1) .. Min(i + batchSize, n)

(* generateEmbedding up to its first pending await (embedding.service.js   *)
(* 76-84, 16-28): with a cached pipeline the call goes on to the model,    *)
(* otherwise it executes pipeline(...) and waits for it.                   *)
FirstAwait == IF embeddingPipeline = NULL THEN "loading" ELSE "inferring"

(* batch.map(text => generateEmbedding(text)) (embedding.service.js 119) *)
MapBatch(pc, i, n) ==
  [k \in 1 .. n |-> IF k \in Batch(i, n) THEN FirstAwait ELSE pc[k]]

PipelineCallsOf(i, n) ==
  IF embeddingPipeline = NULL THEN Cardinality(Batch(i, n)) ELSE 0

(* generateEmbeddingsBatch(texts) is called (embedding.service.js          *)
(* 106-120): with no text it returns [], otherwise it starts the first     *)
(* batch.                                                                  *)
CallGenerateEmbeddingsBatch ==
  /\ batchPc = "idle"
  /\ \E n \in 0 .. MaxTexts :
       /\ batchN' = n
       /\ IF n = 0
          THEN /\ batchPc' = "returned"
               /\ genPc' = <<>>
               /\ pipelineCalls' = pipelineCalls
          ELSE /\ batchPc' = "awaiting"
               /\ genPc' = MapBatch([k \in 1 .. n |-> "idle"], 0, n)
               /\ pipelineCalls' = pipelineCalls + PipelineCallsOf(0, n)
  /\ UNCHANGED <<embeddingPipeline, batchI, embeddings>>
  /\ UNCHANGED <<pipelineVars, callVars, processing_jobs>>

(* A rejected generateEmbedding rejects Promise.all, and                   *)
(* generateEmbeddingsBatch rethrows (embedding.service.js 130-133); the    *)
(* other calls of the batch go on.  A call that has fulfilled or rejected  *)
(* is "settled": while batchPc is "awaiting" every settled call of the     *)
(* batch has fulfilled.                                                    *)
AfterRejection == IF batchPc = "awaiting" THEN "thrown" ELSE batchPc

(* await pipeline(...) resolves: the result is cached and the call goes on *)
(* to the model (embedding.service.js 25-31, 78-84).                       *)
PipelineResolves ==
  /\ \E k \in 1 .. batchN :
       /\ genPc[k] = "loading"
       /\ genPc' = [genPc EXCEPT ![k] = "inferring"]
  /\ embeddingPipeline' = "pipeline"
  /\ UNCHANGED <<pipelineCalls, batchPc, batchN, batchI, embeddings>>
  /\ UNCHANGED <<pipelineVars, callVars, processing_jobs>>

(* await pipeline(...) rejects (embedding.service.js 33-36, 95-98). *)
PipelineRejects ==
  /\ \E k \in 1 .. batchN :
       /\ genPc[k] = "loading"
       /\ genPc' = [genPc EXCEPT ![k] = "settled"]
  /\ batchPc' = AfterRejection
  /\ UNCHANGED <<embeddingPipeline, pipelineCalls, batchN, batchI,
                 embeddings>>
  /\ UNCHANGED <<pipelineVars, callVars, processing_jobs>>

(* await model(truncatedText, ...) resolves and generateEmbedding returns  *)
(* the vector (embedding.service.js 84-93).                                *)
ModelResolves ==
  /\ \E k \in 1 .. batchN :
       /\ genPc[k] = "inferring"
       /\ genPc' = [genPc EXCEPT ![k] = "settled"]
  /\ UNCHANGED <<embeddingPipeline, pipelineCalls, batchPc, batchN, batchI,
                 embeddings>>
  /\ UNCHANGED <<pipelineVars, callVars, processing_jobs>>

(* await model(truncatedText, ...) rejects (embedding.service.js 95-98). *)
ModelRejects ==
  /\ \E k \in 1 .. batchN :
       /\ genPc[k] = "inferring"
       /\ genPc' = [genPc EXCEPT ![k] = "settled"]
  /\ batchPc' = AfterRejection
  /\ UNCHANGED <<embeddingPipeline, pipelineCalls, batchN, batchI,
                 embeddings>>
  /\ UNCHANGED <<pipelineVars, callVars, processing_jobs>>

(* The texts of a batch in input order, standing for their vectors. *)
RECURSIVE BatchEmbeddings(_, _)
BatchEmbeddings(from, to) ==
  IF from > to THEN <<>> ELSE <<from>> \o BatchEmbeddings(from + 1, to)

(* await Promise.all(...) resolves: the vectors of the batch are pushed,   *)
(* i += batchSize, and the next batch is started or the array returned     *)
(* (embedding.service.js 115-128).                                         *)
PromiseAllResolves ==
  /\ batchPc = "awaiting"
  /\ \A k \in Batch(batchI, batchN) : genPc[k] = "settled"
  /\ embeddings' = embeddings
       \o BatchEmbeddings(batchI + 1, Min(batchI + batchSize, batchN))
  /\ batchI' = batchI + batchSize
  /\ IF batchI' < batchN
     THEN /\ genPc' = MapBatch(genPc, batchI', batchN)
          /\ pipelineCalls' = pipelineCalls + PipelineCallsOf(batchI', batchN)
          /\ batchPc' = batchPc
     ELSE /\ genPc' = genPc
          /\ pipelineCalls' = pipelineCalls
          /\ batchPc' = "returned"
  /\ UNCHANGED <<embeddingPipeline, batchN>>
  /\ UNCHANGED <<pipelineVars, callVars, processing_jobs>>

EmbedNext ==
  \/ CallGenerateEmbeddingsBatch
  \/ PipelineResolves
  \/ PipelineRejects
  \/ ModelResolves
  \/ ModelRejects
  \/ PromiseAllResolves

EmbedSpec == Init /\ [][EmbedNext]_vars

(***************************************************************************)
(* cleanupOldJobs (queue.service.js 220-235).  A row of processing_jobs is *)
(* its id, its status and its completed_at, kept as the age in days of the *)
(* completion (<<>> for NULL).                                             *)
(***************************************************************************)

(* Largest number of rows of processing_jobs. *)
MaxJobs == 2

(* INTERVAL '7 days' (queue.service.js 225) *)
RetentionDays == 7

Ages == {RetentionDays - 1, RetentionDays, RetentionDays + 1}

(* The rows the code writes: completed_at is set together with 'completed' *)
(* and 'failed' (queue.service.js 96-113, 137-145) and kept when a retry   *)
(* sets 'processing' again (queue.service.js 21-26).                       *)
JobRowKinds ==
  {[status |-> "pending", completed_at |-> <<>>],
   [status |-> "processing", completed_at |-> <<>>]}
  \cup {[status |-> st, completed_at |-> <<age>>] :
          st \in {"processing", "completed", "failed"}, age \in Ages}

JobRow(id, kind) ==
  [id |-> id, status |-> kind.status, completed_at |-> kind.completed_at]

JobTables ==
  UNION {{[id \in 1 .. n |-> JobRow(id, kinds[id])] :
            kinds \in [1 .. n -> JobRowKinds]} : n \in 0 .. MaxJobs}

(* status IN ('completed', 'failed') (queue.service.js 224) *)
StatusIsTerminal(row) == row.status \in {"completed", "failed"}

(* completed_at < NOW() - INTERVAL '7 days' (queue.service.js 225); the    *)
(* comparison with NULL is not true.                                       *)
CompletedBeforeOrAt(row) ==
  row.completed_at # <<>> /\ row.completed_at[1] >= RetentionDays
CompletedBefore(row) ==
  row.completed_at # <<>> /\ row.completed_at[1] > RetentionDays

Deleted(row) == StatusIsTerminal(row) /\ CompletedBefore(row)

Kept(row) == ~Deleted(row)

(* A store at rest: a document of any status with its clauses, no upload   *)
(* or job running, and the rows of processing_jobs.                        *)
CleanupInit ==
  /\ routePc = "start"
  /\ fileType = NULL
  /\ docText = <<>>
  /\ docClauses = <<>>
  /\ docStatus \in {"uploaded", "processing", "analyzed", "failed"}
  /\ jobStatus = "none"
  /\ jobError = NULL
  /\ jobResult = NoObject
  /\ clauseRows \in {<<>>, <<0>>}
  /\ qState = "none"
  /\ attemptsMade = 0
  /\ qReturn = NoObject
  /\ hPc = "idle"
  /\ hIdx = 0
  /\ hErr = NULL
  /\ runs = 0
  /\ kFail = 0
  /\ nPersist = 0
  /\ attemptLog = <<>>
  /\ dbFault = FALSE
  /\ embeddingPipeline = NULL
  /\ pipelineCalls = 0
  /\ batchPc = "idle"
  /\ batchN = 0
  /\ batchI = 0
  /\ genPc = <<>>
  /\ embeddings = <<>>
  /\ processing_jobs \in JobTables
  /\ callPc = "called"
  /\ callArg = <<>>
  /\ callRet = <<>>

(* cleanupOldJobs(): the DELETE removes the rows and the call returns      *)
(* result.rowCount, or the query throws and the error is rethrown.         *)
CleanupOldJobs ==
  /\ callPc = "called"
  /\ \E ok \in BOOLEAN :
       IF ok
       THEN /\ processing_jobs' = SelectSeq(processing_jobs, Kept)
            /\ callRet' = <<Len(SelectSeq(processing_jobs, Deleted))>>
            /\ callPc' = "returned"
       ELSE /\ processing_jobs' = processing_jobs
            /\ callRet' = callRet
            /\ callPc' = "thrown"
  /\ UNCHANGED <<callArg, pipelineVars, embedVars>>

CleanupSpec == CleanupInit /\ [][CleanupOldJobs]_vars

(***************************************************************************)
(* Properties.                                                             *)
(***************************************************************************)

DocTerminal == {"analyzed", "failed"}
JobTerminal == {"completed", "failed"}
RouteFinished == routePc \in {"done", "error"}
JobEnded == qState \in {"completed", "failed"} /\ hPc = "idle"

(* C1: once the Document status is 'analyzed' or 'failed', no later write  *)
(* of the upload route or of the job handler changes it.                   *)
C1_DocStatusNeverRegresses ==
  [][(docStatus \in DocTerminal) => (docStatus' = docStatus)]_vars

(* C2: once the ProcessingJob record is 'completed' or 'failed' it is not  *)
(* written again; a queue-level retry does not move the same record from   *)
(* 'failed' back to 'processing' or 'pending'.                             *)
C2_JobRecordTerminalOnce ==
  [][(jobStatus \in JobTerminal) => (UNCHANGED jobVars)]_vars

(* C3: when the only failures are k per-clause failures out of n clauses   *)
(* (k > 0, single attempt, no other fault), the handler finishes with      *)
(* Document status 'analyzed', job status 'completed' and exactly n - k    *)
(* Clause records for the document.                                        *)
C3_PartialFailureTolerance ==
  (/\ RouteFinished
   /\ ~dbFault
   /\ qState = "completed"
   /\ Len(attemptLog) = 1
   /\ attemptLog[1].kFail > 0)
  => /\ docStatus = "analyzed"
     /\ jobStatus = "completed"
     /\ Len(clauseRows) = Len(docClauses) - attemptLog[1].kFail

(* C4: the clause count recorded in a completed job's result summary and   *)
(* returned by the handler equals the number of Clause records persisted   *)
(* in that attempt (n - k), not the number of segmented clauses.           *)
C4_ClauseCountIsPersistedCount ==
  /\ hPc = "return" =>
       jobResult # NoObject /\ jobResult[1].clauseCount = nPersist
  /\ qState = "completed" =>
       qReturn # NoObject /\ qReturn[1].clauseCount = nPersist

(* C5: when extraction fails for an unsupported file type, after the job   *)
(* has run through all its attempts the Document is 'failed', the job is   *)
(* 'failed' with a non-null error, and there is no Clause record.          *)
C5_UnsupportedTypeEndsFailed ==
  (/\ fileType = "other"
   /\ RouteFinished
   /\ ~dbFault
   /\ JobEnded)
  => /\ docStatus = "failed"
     /\ jobStatus = "failed"
     /\ jobError # NULL
     /\ clauseRows = <<>>

(* C6: every document-level failure inside an attempt ends the attempt     *)
(* with the job 'failed' carrying the error message and the Document       *)
(* 'failed'; none leaves the job record in 'processing'.                   *)
C6_DocLevelFailureMarksFailed ==
  hPc = "reject"
  => /\ jobStatus = "failed"
     /\ jobError = hErr
     /\ docStatus = "failed"

(* C7: the handler of one enqueued job runs at most 3 times; a further     *)
(* attempt starts only after the previous one ended with a thrown          *)
(* document-level failure; an attempt whose only failures were per-clause  *)
(* failures ends successfully and is never retried.                        *)
C7_RetryPolicy ==
  /\ runs <= Attempts
  /\ runs = Len(attemptLog) + (IF hPc = "idle" THEN 0 ELSE 1)
  /\ \A i \in 1 .. Len(attemptLog) :
       /\ i < runs => attemptLog[i].end = "threw"
       /\ attemptLog[i].end = "threw" <=> attemptLog[i].err # NULL
       /\ attemptLog[i].end = "returned" =>
            /\ i = runs
            /\ qState = "completed"
            /\ hPc = "idle"
  /\ hPc \in {"catchDoc", "catchJob", "reject"} <=> hErr # NULL
  /\ qState = "failed" => runs = Attempts

(* C7 witness: a second attempt, begun after a thrown first attempt, has   *)
(* returned although one of its clauses failed, and the job is completed.  *)
C7_Witness ==
  /\ Len(attemptLog) = 2
  /\ attemptLog[1].end = "threw"
  /\ attemptLog[2].end = "returned"
  /\ attemptLog[2].kFail > 0
  /\ qState = "completed"

(* C7 witness of the bound: the third attempt has thrown and the job is    *)
(* failed for good.                                                        *)
C7_WitnessExhausted ==
  /\ runs = Attempts
  /\ qState = "failed"

(* C8: no two Clause records of the document share a position.             *)
C8_PositionUnique ==
  \A i, j \in 1 .. Len(clauseRows) :
    i # j => clauseRows[i] # clauseRows[j]

(* C9: the job record has an error detail only if it is 'failed' and a     *)
(* result summary only if it is 'completed'.                               *)
C9_ErrorOnlyWhenFailed ==
  /\ jobError # NULL => jobStatus = "failed"
  /\ jobResult # NoObject => jobStatus = "completed"

(* C10: once the upload request has finished and the job has ended, a      *)
(* completed job has Document 'analyzed' and record 'completed', a failed  *)
(* job has Document 'failed' and record 'failed' with an error string.     *)
C10_JobAndDocumentAgree ==
  (RouteFinished /\ JobEnded)
  => /\ qState = "completed" =>
          docStatus = "analyzed" /\ jobStatus = "completed"
     /\ qState = "failed" =>
          docStatus = "failed" /\ jobStatus = "failed" /\ jobError # NULL

(* C11: every enqueued job ends for good in 'completed' or 'failed': after *)
(* the last attempt the ProcessingJob record is not left in 'pending' or   *)
(* 'processing'.                                                           *)
C11_EndedJobHasTerminalRecord ==
  JobEnded => jobStatus \in JobTerminal

(* C12: a failure while classifying, title-extracting or risk-scoring one  *)
(* clause is a clause-level error: it never reaches the handler's          *)
(* document-level catch, so it neither aborts an attempt nor marks the     *)
(* document 'failed'.                                                      *)
C12_ClassificationFailureIsClauseLevel ==
  /\ hErr # "classification"
  /\ \A i \in 1 .. Len(attemptLog) : attemptLog[i].err # "classification"

IsBlank(text) == CharLen(Trim(text)) = 0

(* C13: for empty or whitespace-only extracted text segmentation yields no *)
(* clause and the job treats this as success: no Clause record, Document   *)
(* 'analyzed', job 'completed' with clause count 0.                        *)
C13_BlankTextCompletes ==
  IsBlank(docText) =>
    /\ docClauses = <<>>
    /\ (/\ RouteFinished
        /\ ~dbFault
        /\ qState = "completed"
        /\ Len(attemptLog) = 1)
       => /\ clauseRows = <<>>
          /\ docStatus = "analyzed"
          /\ jobStatus = "completed"
          /\ jobResult = <<[success |-> TRUE, clauseCount |-> 0]>>

(* C14: for every text that is not empty or whitespace-only,               *)
(* segmentClauses returns at least one clause.                             *)
C14_NonBlankTextYieldsClause ==
  (callPc = "returned" /\ ~IsBlank(callArg)) => Len(callRet) >= 1

(* C15: the positions of the n clauses segmentClauses returns are exactly  *)
(* 0, 1, ..., n-1 in output order.                                         *)
C15_PositionsDense ==
  callPc = "returned" =>
    \A k \in 1 .. Len(callRet) : callRet[k].position = k - 1

(* The numbered sections of a text: each section number that stands at the *)
(* beginning of a line, the first line included, with the text up to the   *)
(* next such number.                                                       *)
NumberedSectionTexts(text) ==
  LET fr == SplitNumbered(<<NlTok>> \o text, 1, <<>>, 0)
  IN [k \in 1 .. (Len(fr) - 1) \div 2 |-> Trim(fr[2 * k + 1])]

IsNotNoise(sectionText) == CharLen(sectionText) > MinSectionLen

(* C16: when the numbered-section split fires and yields clauses, they are *)
(* exactly the numbered sections whose text is not noise, one clause each, *)
(* the first section of a text that begins with its number included.       *)
C16_EveryNumberedSectionEmitted ==
  (/\ callPc = "returned"
   /\ Len(SplitNumbered(callArg, 1, <<>>, 0)) > 3
   /\ FirstStrategy(callArg) # <<>>)
  => [k \in 1 .. Len(callRet) |-> callRet[k].text]
       = SelectSeq(NumberedSectionTexts(callArg), IsNotNoise)

(* The number of patterns of the type named ty that match the text.        *)
TypeScore(text, ty) == Cardinality({p \in text : p.type = ty})

TypeNames == {ClauseTypes[t] : t \in TypeIndex}

(* C17: classifyClause returns a confidence in [0,1]; it is exactly 0.5    *)
(* when no indicator pattern of any type matches, and otherwise it is the  *)
(* winning type's score divided by the sum of all types' scores, a type's  *)
(* score being the number of its patterns that match.                      *)
C17_Confidence ==
  callPc = "returned" =>
    LET confidence == callRet[1].confidence
        winning == TypeScore(callArg, callRet[1].clause_type)
        total == Cardinality(callArg)
    IN /\ confidence[2] > 0
       /\ FracLeq(Frac(0, 1), confidence)
       /\ FracLeq(confidence, One)
       /\ IF callArg = {}
          THEN confidence = Half
          ELSE /\ winning > 0
               /\ FracEq(confidence, Frac(winning, total))

(* A text matching two patterns of one type and one of another: 2/3.       *)
C17_Witness ==
  /\ callPc = "returned"
  /\ Cardinality(callArg) = 3
  /\ TypeScore(callArg, callRet[1].clause_type) = 2
  /\ callRet[1].confidence = Frac(2, 3)

(* C18: classifyClause returns 'general' exactly when every type scores 0; *)
(* otherwise the type with the highest score, and among the types tied for *)
(* the highest score the one declared first.  The result is one of the 12  *)
(* types or 'general'.                                                     *)
C18_TypeSelection ==
  callPc = "returned" =>
    LET ty == callRet[1].clause_type
        sc(t) == TypeScore(callArg, ClauseTypes[t])
    IN /\ ty \in TypeNames \cup {"general"}
       /\ (ty = "general") <=> (\A t \in TypeIndex : sc(t) = 0)
       /\ (ty # "general") =>
            \E t \in TypeIndex :
              /\ ClauseTypes[t] = ty
              /\ \A u \in TypeIndex : sc(u) <= sc(t)
              /\ \A u \in TypeIndex : (u < t) => (sc(u) < sc(t))

(* Two types tied for the highest score: the one declared first is         *)
(* returned.                                                               *)
C18_Witness ==
  /\ callPc = "returned"
  /\ \E t, u \in TypeIndex :
       /\ t < u
       /\ TypeScore(callArg, ClauseTypes[t]) > 0
       /\ TypeScore(callArg, ClauseTypes[t])
            = TypeScore(callArg, ClauseTypes[u])
       /\ \A v \in TypeIndex :
            TypeScore(callArg, ClauseTypes[v])
              <= TypeScore(callArg, ClauseTypes[t])
       /\ callRet[1].clause_type = ClauseTypes[t]

HighMatches(text) == {p \in text : p.severity = "high"}
MediumMatches(text) == {p \in text : p.severity = "medium"}
LowMatches(text) == {p \in text : p.severity = "low"}

(* C19: for every clause text that matches at least one high-risk pattern  *)
(* analyzeClauseRisk returns risk level 'high' and requires_review true,   *)
(* whatever medium or low patterns also match and whatever clause type is  *)
(* passed.                                                                 *)
C19_HighRiskWins ==
  (callPc # "called" /\ HighMatches(callArg[1]) # {}) =>
    /\ callRet[1].risk_level = "high"
    /\ callRet[1].requires_review = TRUE

(* A text matching a high, a medium and a low pattern.                     *)
C19_Witness ==
  /\ callPc = "returned"
  /\ HighMatches(callArg[1]) # {}
  /\ MediumMatches(callArg[1]) # {}
  /\ LowMatches(callArg[1]) # {}
  /\ callRet[1].risk_level = "high"

(* C20: for every result of analyzeClauseRisk and for every clause row the *)
(* pipeline inserts, requires_review is true exactly when risk_level is    *)
(* not 'low'.                                                              *)
C20_RequiresReviewDerived ==
  \A k \in 1 .. Len(callRet) :
    callRet[k].requires_review <=> (callRet[k].risk_level # "low")

(* An inserted row of medium risk level.                                   *)
C20_Witness ==
  /\ callPc = "inserted"
  /\ Len(callRet) = 2
  /\ callRet[2].risk_level = "medium"
  /\ callRet[2].requires_review = TRUE

ZeroMagnitude(v) == \A i \in 1 .. Len(v) : v[i] = 0

(* C21: cosineSimilarity throws the dimension error exactly when the two   *)
(* vectors have different lengths; for equal lengths it returns a number,  *)
(* never dividing by zero, and the number is 0 whenever either vector has  *)
(* zero magnitude.                                                         *)
C21_CosineFailsOnlyOnMismatch ==
  callPc = "returned" =>
    LET embedding1 == callArg[1]
        embedding2 == callArg[2]
        r == callRet[1]
    IN /\ (r.kind = "error") <=> (Len(embedding1) # Len(embedding2))
       /\ (Len(embedding1) = Len(embedding2)) =>
            /\ r.kind = "number"
            /\ r.denSqrtOf # 0
            /\ (ZeroMagnitude(embedding1) \/ ZeroMagnitude(embedding2))
                 => (r.num = 0)

(* Two vectors of equal length, one of zero magnitude and one not.         *)
C21_Witness ==
  /\ callPc = "returned"
  /\ Len(callArg[1]) = Len(callArg[2])
  /\ ZeroMagnitude(callArg[1])
  /\ ~ZeroMagnitude(callArg[2])
  /\ callRet[1] = Number(0, 1)

(* C22: for every embedding vector v, the empty vector included,           *)
(* parseEmbeddingFromDB(formatEmbeddingForDB(v)) has the length of v and   *)
(* the value of v at every index.                                          *)
C22_EmbeddingRoundTrip ==
  callPc = "parsed" =>
    /\ Len(callRet[2]) = Len(callArg)
    /\ \A i \in 1 .. Len(callArg) : callRet[2][i] = callArg[i]

(* The similarity of candidate number index to the query. *)
SimilarityOf(index) == cosineSimilarity(callArg[1], callArg[2][index])

(* C23: findSimilar over n candidates with parameter K returns min(K, n)   *)
(* entries taken from the candidates, in non-increasing order of           *)
(* similarity, candidates of equal similarity in candidate order; no       *)
(* candidate left out has a strictly higher similarity than one returned.  *)
C23_TopKStableDescending ==
  callPc = "returned" =>
    LET n == Len(callArg[2])
        K == callArg[3]
        returned == {callRet[k].index : k \in 1 .. Len(callRet)}
    IN /\ Len(callRet) = Min(K, n)
       /\ \A k \in 1 .. Len(callRet) :
            /\ callRet[k].index \in 1 .. n
            /\ callRet[k].similarity = SimilarityOf(callRet[k].index)
       /\ \A j, k \in 1 .. Len(callRet) :
            (j < k) =>
              /\ callRet[j].index # callRet[k].index
              /\ Minus(callRet[j].similarity, callRet[k].similarity) >= 0
              /\ (Minus(callRet[j].similarity, callRet[k].similarity) = 0)
                   => (callRet[j].index < callRet[k].index)
       /\ \A out \in (1 .. n) \ returned : \A k \in 1 .. Len(callRet) :
            Minus(SimilarityOf(out), callRet[k].similarity) <= 0

(* Three candidates and K = 2: the two returned tie and were given in the  *)
(* order returned, the third is left out, and the first candidate is not   *)
(* the most similar.                                                       *)
C23_Witness ==
  /\ callPc = "returned"
  /\ Len(callArg[2]) = 3
  /\ callArg[3] = 2
  /\ Len(callRet) = 2
  /\ callRet[1].index = 2
  /\ callRet[2].index = 3
  /\ Minus(callRet[1].similarity, callRet[2].similarity) = 0

(* C24: within one process pipeline(...) is executed at most once, however *)
(* many generateEmbedding calls are started before the first load has      *)
(* finished.                                                               *)
C24_ModelLoadedOnce == pipelineCalls <= 1

InFlight == {k \in 1 .. batchN : genPc[k] \in {"loading", "inferring"}}
Started == {k \in 1 .. batchN : genPc[k] # "idle"}
Finished == {k \in 1 .. batchN : genPc[k] = "settled"}

(* C25: no embedding of a batch is started before every embedding of the   *)
(* batch before it has finished, at most 10 embeddings of the call are in  *)
(* flight at any time, and the returned array holds one vector per input   *)
(* text in input order.                                                    *)
C25_BatchesOfTen ==
  /\ Cardinality(InFlight) <= 10
  /\ \A j, k \in 1 .. batchN :
       (k \in Started /\ (j - 1) \div 10 < (k - 1) \div 10) => j \in Finished
  /\ (batchPc = "returned") =>
       /\ Len(embeddings) = batchN
       /\ \A k \in 1 .. batchN : embeddings[k] = k

(* A call with more than 10 texts whose second batch is in flight.         *)
C25_Witness ==
  /\ batchN > 10
  /\ batchPc = "awaiting"
  /\ \E k \in InFlight : k > 10

IdsOf(table) == {table[k].id : k \in 1 .. Len(table)}

OldTerminal(row) ==
  /\ row.status \in JobTerminal
  /\ row.completed_at # <<>>
  /\ row.completed_at[1] > 7

(* C26: cleanupOldJobs deletes exactly the rows of processing_jobs whose   *)
(* status is 'completed' or 'failed' and whose completion is more than 7   *)
(* days old, leaves every other row and every Document and Clause record   *)
(* unchanged, and returns the number of rows deleted.                      *)
C26_CleanupDeletesOldTerminalOnly ==
  [][(callPc = "called" /\ callPc' = "returned") =>
       (/\ \A k \in 1 .. Len(processing_jobs) :
             LET row == processing_jobs[k]
             IN IF OldTerminal(row)
                THEN row.id \notin IdsOf(processing_jobs')
                ELSE \E j \in 1 .. Len(processing_jobs') :
                       processing_jobs'[j] = row
         /\ IdsOf(processing_jobs') \subseteq IdsOf(processing_jobs)
         /\ Len(processing_jobs') = Cardinality(IdsOf(processing_jobs'))
         /\ callRet' = <<Len(processing_jobs) - Len(processing_jobs')>>
         /\ UNCHANGED <<docStatus, clauseRows>>)]_vars

(* One row was deleted and a failed job completed exactly 7 days ago was   *)
(* kept, next to an analyzed document with a clause.                       *)
C26_Witness ==
  /\ callPc = "returned"
  /\ callRet = <<1>>
  /\ \E k \in 1 .. Len(processing_jobs) :
       /\ processing_jobs[k].status = "failed"
       /\ processing_jobs[k].completed_at = <<7>>
  /\ docStatus = "analyzed"
  /\ clauseRows # <<>>

(* C27: if the numbered-section split fires but every section is          *)
(* discarded as noise, the paragraph split is tried next, and the sentence *)
(* grouping runs only if the paragraph split yields no clause either.      *)
C27_StrategiesInPriorityOrder ==
  (/\ callPc = "returned"
   /\ Len(SplitNumbered(callArg, 1, <<>>, 0)) > 3
   /\ NumberedClauses(SplitNumbered(callArg, 1, <<>>, 0), 1) = <<>>)
  => LET byParagraph ==
           ParagraphClauses(SplitParagraphs(callArg, 1, <<>>, 0), 0)
     IN callRet = IF byParagraph # <<>>
                  THEN byParagraph
                  ELSE SentenceClauses(tokenize(callArg), 0)

ReturnedTexts == {callRet[k].text : k \in 1 .. Len(callRet)}

(* C28: a numbered section is discarded only if its trimmed text has fewer *)
(* than 20 characters and a paragraph only if its trimmed text has fewer   *)
(* than 50: a section of exactly 20 characters and a paragraph of exactly  *)
(* 50 characters are kept as clauses.                                      *)
C28_ThresholdsAreShorterThan ==
  callPc = "returned" =>
    LET numberedSections == SplitNumbered(callArg, 1, <<>>, 0)
        paragraphs == SplitParagraphs(callArg, 1, <<>>, 0)
    IN IF Len(numberedSections) > 3
       THEN \A k \in 1 .. (Len(numberedSections) - 1) \div 2 :
              CharLen(Trim(numberedSections[2 * k + 1])) >= 20
                => Trim(numberedSections[2 * k + 1]) \in ReturnedTexts
       ELSE \A k \in 1 .. Len(paragraphs) :
              CharLen(Trim(paragraphs[k])) >= 50
                => Trim(paragraphs[k]) \in ReturnedTexts

(* The flags of the matching patterns of one tier in pattern-list order.   *)
RECURSIVE TierFlags(_, _, _)
TierFlags(text, sev, i) ==
  IF i > RiskPatternCount[sev] THEN <<>>
  ELSE (IF RiskPattern(sev, i) \in text
        THEN <<[severity |-> sev, pattern |-> i]>> ELSE <<>>)
       \o TierFlags(text, sev, i + 1)

(* C29: the flags returned by analyzeClauseRisk are one flag per matching  *)
(* pattern of the deciding tier in pattern-list order: the high flags and  *)
(* no medium flag if a high pattern matches, otherwise the medium flags;   *)
(* low patterns add no flag and do not change the level, and the flag list *)
(* is empty exactly when the level is 'low'.                               *)
C29_FlagsOfDecidingTier ==
  callPc # "called" =>
    LET text == callArg[1]
        r == callRet[1]
    IN /\ r.flags = IF HighMatches(text) # {}
                    THEN TierFlags(text, "high", 1)
                    ELSE TierFlags(text, "medium", 1)
       /\ r.risk_level = IF HighMatches(text) # {} THEN "high"
                         ELSE IF MediumMatches(text) # {} THEN "medium"
                         ELSE "low"
       /\ (r.flags = <<>>) <=> (r.risk_level = "low")

(* Two medium patterns and a low pattern match: two medium flags.          *)
C29_Witness ==
  /\ callPc = "returned"
  /\ Cardinality(MediumMatches(callArg[1])) = 2
  /\ LowMatches(callArg[1]) # {}
  /\ Len(callRet[1].flags) = 2
  /\ callRet[1].risk_level = "medium"

(* C30: every ProcessingJob record in status 'pending' belongs to a job in *)
(* the queue: once the upload request has ended, no record is 'pending'    *)
(* without a queue job, so none stays 'pending' forever.                   *)
C30_NoOrphanPendingJob ==
  (RouteFinished /\ jobStatus = "pending") => qState # "none"

====
